---- MODULE Spec2Model ----
(***************************************************************************)
(* Model of modesolverpy/mode_solver.py: the _ModeSolver base class with   *)
(* its sweep and group-index drivers, and the two concrete solvers         *)
(* ModeSolverSemiVectorial and ModeSolverFullyVectorial.                   *)
(*                                                                         *)
(* One solver object is constructed (Init) and then driven by its public   *)
(* methods.  The finite-difference library _mode_solver_lib is not part of *)
(* the modelled source; its constructor and its solve are modelled from    *)
(* the specification (OperatorBuilder / EigenSolver).                      *)
(*                                                                         *)
(* Values: an n_eff is an integer; a field array is a sequence of integer  *)
(* cells (np.abs is the cell-wise absolute value); a Python float that     *)
(* comes out of a division is the rational <<numerator, denominator>>;     *)
(* None is the empty sequence; a list object lives in heap and is named by *)
(* its index (0 is None, -1 an attribute that was never set).              *)
(*                                                                         *)
(* Plotting (gnuplot), the progress bar and the creation of directories do *)
(* not touch the solver and are left out; tol and semi_vectorial_method    *)
(* are handed to the library unchanged and are not state of the model.     *)
(* An exception of the library leaves the running method at once, as the   *)
(* source catches none.                                                    *)
(***************************************************************************)
EXTENDS Integers, Sequences, FiniteSets, TLC

VARIABLES
    kind,                   \* "SV": ModeSolverSemiVectorial, "FV": ModeSolverFullyVectorial
    _n_eigs,
    _boundary,
    _mode_profiles,
    _initial_mode_guess,
    _n_eff_guess,
    n_effs,
    modes,
    mode_types,
    overlaps,
    _structure,
    _ms,                    \* the library solver object of the latest _solve
    heap,                   \* the mode lists (ModeSets) alive, by object id
    pc,                     \* position of the running public method
    frame,                  \* locals of the running public method
    ret,                    \* outcome of the latest self.solve call
    outcome,                \* what the latest public method gave its caller
    log,                    \* eigensolve invocations of the current method (history)
    prev,                   \* the latest eigensolve invocation before it (history)
    ctor,                   \* the arguments the solver was constructed with (history)
    n_effs_dat,             \* rows of the sweep summary file
    mode_dat                \* arrays written by write_modes_to_file

solverVars == <<kind, _n_eigs, _boundary, _mode_profiles, _initial_mode_guess,
                _n_eff_guess, n_effs, modes, mode_types, overlaps, _structure,
                _ms, heap>>
vars == <<kind, _n_eigs, _boundary, _mode_profiles, _initial_mode_guess,
          _n_eff_guess, n_effs, modes, mode_types, overlaps, _structure,
          _ms, heap, pc, frame, ret, outcome, log, prev, ctor, n_effs_dat,
          mode_dat>>

---------------------------------------------------------------------------
(* Bounds and input sets *)

MaxSweep == 2               \* longest sequence given to a sweep
MaxEigs == 2                \* largest n_eigs a solver is built with

None == <<>>
Structures == {1, 2}
Wavelengths == {3, 4}
Steps == {1, 2}
SampleIds == {1, 2, 3}
DefaultBoundary == <<"0", "0", "0", "0">>
Boundaries == {DefaultBoundary, <<"0", "0", "0", "0", "0">>, <<"0", "X", "0", "0">>}
BoundaryAlphabet == {"0", "A", "S"}
Guesses == {None, <<3, 3>>}
NEffGuesses == {None, <<5>>}

RECURSIVE SeqsUpTo(_, _)
SeqsUpTo(S, n) ==
    IF n = 0 THEN {<<>>}
    ELSE LET shorter == SeqsUpTo(S, n - 1)
         IN  shorter \cup {Append(q, x) : q \in {t \in shorter : Len(t) = n - 1}, x \in S}

---------------------------------------------------------------------------
(* numpy and Python arithmetic *)

AbsInt(x) == IF x < 0 THEN 0 - x ELSE x

\* np.abs(array)
NpAbs(a) == [i \in 1..Len(a) |-> AbsInt(a[i])]

RECURSIVE SumSeq(_)
SumSeq(q) == IF q = <<>> THEN 0 ELSE Head(q) + SumSeq(Tail(q))

\* np.sum(np.abs(f)**2)
Energy(f) == SumSeq([i \in 1..Len(f) |-> AbsInt(f[i]) * AbsInt(f[i])])

\* floats that come out of a division, as rationals with a positive denominator
RInt(x) == <<x, 1>>
RSub(a, b) == <<a[1] * b[2] - b[1] * a[2], a[2] * b[2]>>
RMul(a, b) == <<a[1] * b[1], a[2] * b[2]>>
RDiv(a, b) == IF b[1] > 0 THEN <<a[1] * b[2], a[2] * b[1]>>
              ELSE <<0 - a[1] * b[2], 0 - a[2] * b[1]>>
RLess(a, b) == a[1] * b[2] < b[1] * a[2]
REq(a, b) == a[1] * b[2] = b[1] * a[2]

\* floor of n/d for d > 0
FloorDiv(n, d) == IF n >= 0 THEN n \div d ELSE 0 - ((0 - n + d - 1) \div d)

\* np.round(x, 2): scale by 100, round half to even, scale back
NpRound2(x) ==
    LET n == 100 * x[1]
        d == x[2]
        q == FloorDiv(n, d)
        r == n - q * d
        up == \/ 2 * r > d
              \/ 2 * r = d /\ q % 2 = 1
    IN  <<IF up THEN q + 1 ELSE q, 100>>

\* np.argmax of a sequence of floats, 0-based: the first index holding the maximum
NpArgmax(q) ==
    CHOOSE i \in 0..(Len(q) - 1) :
        /\ \A j \in 0..(Len(q) - 1) : ~RLess(q[i + 1], q[j + 1])
        /\ \A j \in 0..(i - 1) : RLess(q[j + 1], q[i + 1])

Min2(a, b) == IF a < b THEN a ELSE b

\* list(zip(a, b, c))
Zip3(a, b, c) == [i \in 1..Min2(Len(a), Min2(Len(b), Len(c))) |-> <<a[i], b[i], c[i]>>]

Reverse(q) == [i \in 1..Len(q) |-> q[Len(q) + 1 - i]]

---------------------------------------------------------------------------
(* _mode_solver_lib: constructor (OperatorBuilder) and solve (EigenSolver, *)
(* FieldReconstructor), from the specification                             *)

ValidBoundary(b) == Len(b) = 4 /\ \A i \in 1..Len(b) : b[i] \in BoundaryAlphabet

NoMs == [set |-> FALSE, solved |-> FALSE, neff |-> None, modes |-> -1]

\* ms._ModeSolverSemiVectorial(...) / ms._ModeSolverVectorial(...): the operator is
\* assembled for the boundary code, an invalid code raises IllPosedBoundaryError
MsCtor(wavelength, structure, boundary) ==
    IF ValidBoundary(boundary)
    THEN [ok |-> TRUE,
          obj |-> [set |-> TRUE, solved |-> FALSE, neff |-> None, modes |-> -1]]
    ELSE [ok |-> FALSE, exc |-> "IllPosedBoundaryError"]

\* effective indices of eigenpair sample k, fundamental mode first
LibNeff(k, n) == [i \in 1..n |-> 10 + k - 3 * i]

\* the single field component of semi-vectorial mode i of sample k
LibFieldSV(k, i) ==
    CASE k = 1 -> <<i, 0 - 2 * i>>
      [] k = 2 -> <<0 - 2 * i, 0 - 1>>
      [] OTHER -> <<2 * i, 1>>

FieldNames == <<"Ex", "Ey", "Ez", "Hx", "Hy", "Hz">>

LibModesFV ==
    << [fields |-> [Ex |-> <<2, -1>>, Ey |-> <<0, 1>>, Ez |-> <<0, 0>>,
                    Hx |-> <<0, 0>>, Hy |-> <<3, 0>>, Hz |-> <<0, 1>>]],
       [fields |-> [Ex |-> <<0, 1>>, Ey |-> <<-2, 1>>, Ez |-> <<1, 0>>,
                    Hx |-> <<2, 2>>, Hy |-> <<0, 0>>, Hz |-> <<1, 1>>]],
       [fields |-> [Ex |-> <<1, 0>>, Ey |-> <<0, -1>>, Ez |-> <<1, -1>>,
                    Hx |-> <<1, 0>>, Hy |-> <<1, 0>>, Hz |-> <<0, 0>>]],
       [fields |-> [Ex |-> <<1, 1>>, Ey |-> <<-1, 1>>, Ez |-> <<0, 0>>,
                    Hx |-> <<0, 1>>, Hy |-> <<1, 1>>, Hz |-> <<0, 0>>]],
       [fields |-> [Ex |-> <<0, 1>>, Ey |-> <<1, 1>>, Ez |-> <<1, -1>>,
                    Hx |-> <<0, 0>>, Hy |-> <<0, 0>>, Hz |-> <<0, 2>>]] >>

\* the six field components of fully-vectorial mode i of sample k
LibModeFV(k, i) == LibModesFV[((k + 2 * i) % Len(LibModesFV)) + 1]

\* _ms.solve(...) of the semi-vectorial library solver.  o = 0: the eigensolver
\* does not converge; o = k: it returns eigenpair sample k.  Mode profiles are
\* reconstructed only when asked for.
MsSolveSV(n_eigs, mode_profiles, o) ==
    IF o = 0
    THEN [ok |-> FALSE, exc |-> "NonConvergenceError"]
    ELSE [ok |-> TRUE, neff |-> LibNeff(o, n_eigs),
          modes |-> IF mode_profiles
                    THEN [i \in 1..n_eigs |-> LibFieldSV(o, i)]
                    ELSE None]

\* _ms.solve(...) of the fully-vectorial library solver
MsSolveFV(n_eigs, o) ==
    IF o = 0
    THEN [ok |-> FALSE, exc |-> "NonConvergenceError"]
    ELSE [ok |-> TRUE, neff |-> LibNeff(o, n_eigs),
          modes |-> [i \in 1..n_eigs |-> LibModeFV(o, i)]]

LibOutcomes == {0} \cup SampleIds

---------------------------------------------------------------------------
(* Construction *)

\* faulty variant of BaseInit: the boundary argument is dropped for the default
BaseInitDefaultBoundary(n_eigs, boundary, mode_profiles, initial_mode_guess, n_eff_guess) ==
    [_n_eigs |-> n_eigs,
     _boundary |-> DefaultBoundary,
     _mode_profiles |-> mode_profiles,
     _initial_mode_guess |-> initial_mode_guess,
     _n_eff_guess |-> n_eff_guess,
     n_effs |-> None,
     modes |-> 0,
     mode_types |-> None,
     overlaps |-> None]

\* _ModeSolver.__init__
BaseInit(n_eigs, boundary, mode_profiles, initial_mode_guess, n_eff_guess) ==
    [_n_eigs |-> n_eigs,
     _boundary |-> boundary,
     _mode_profiles |-> mode_profiles,
     _initial_mode_guess |-> initial_mode_guess,
     _n_eff_guess |-> n_eff_guess,
     n_effs |-> None,
     modes |-> 0,
     mode_types |-> None,
     overlaps |-> None]

\* faulty variant of SemiVectorialInit: mode_profiles is not passed on
SemiVectorialInitAlwaysProfiles(n_eigs, boundary, mode_profiles, initial_mode_guess) ==
    BaseInit(n_eigs, boundary, TRUE, initial_mode_guess, None)

\* ModeSolverSemiVectorial.__init__
SemiVectorialInit(n_eigs, boundary, mode_profiles, initial_mode_guess) ==
    BaseInit(n_eigs, boundary, mode_profiles, initial_mode_guess, None)

\* ModeSolverFullyVectorial.__init__
FullyVectorialInit(n_eigs, boundary, initial_mode_guess, n_eff_guess) ==
    BaseInit(n_eigs, boundary, FALSE, initial_mode_guess, n_eff_guess)

NoFrame == [op |-> "none", xs |-> <<>>, fixed |-> 0, filename |-> FALSE, i |-> 0,
            acc |-> <<>>, wl |-> 0, step |-> 0, entry |-> None]
NoRet == [tag |-> "none"]
NoOutcome == [status |-> "none"]
NoPrev == [completed |-> FALSE, produced |-> None]

Constructed(k, a, args) ==
    /\ kind = k
    /\ _n_eigs = a._n_eigs
    /\ _boundary = a._boundary
    /\ _mode_profiles = a._mode_profiles
    /\ _initial_mode_guess = a._initial_mode_guess
    /\ _n_eff_guess = a._n_eff_guess
    /\ n_effs = a.n_effs
    /\ modes = a.modes
    /\ mode_types = a.mode_types
    /\ overlaps = a.overlaps
    /\ _structure = 0
    /\ _ms = NoMs
    /\ heap = <<>>
    /\ pc = "idle"
    /\ frame = NoFrame
    /\ ret = NoRet
    /\ outcome = NoOutcome
    /\ log = <<>>
    /\ prev = NoPrev
    /\ ctor = args
    /\ n_effs_dat = <<>>
    /\ mode_dat = <<>>

InitSemiVectorial ==
    \E n \in 1..MaxEigs, b \in Boundaries, mp \in BOOLEAN, g \in Guesses :
        Constructed("SV", SemiVectorialInit(n, b, mp, g),
                    [kind |-> "SV", n_eigs |-> n, boundary |-> b, mode_profiles |-> mp,
                     initial_mode_guess |-> g, n_eff_guess |-> None])

InitFullyVectorial ==
    \E n \in 1..MaxEigs, b \in Boundaries, g \in Guesses, ng \in NEffGuesses :
        Constructed("FV", FullyVectorialInit(n, b, g, ng),
                    [kind |-> "FV", n_eigs |-> n, boundary |-> b, mode_profiles |-> FALSE,
                     initial_mode_guess |-> g, n_eff_guess |-> ng])

Init == InitSemiVectorial \/ InitFullyVectorial

---------------------------------------------------------------------------
(* The single-point solve *)

Raise(name) == [tag |-> "exc", exc |-> name]
Return(value) == [tag |-> "ok", val |-> value]

\* one eigensolve invocation, as the library saw it and answered it
Invocation(structure, wavelength, guess, n_eff_guess, e, obj) ==
    [structure |-> structure, wavelength |-> wavelength, boundary |-> _boundary,
     guess |-> guess, n_eff_guess |-> n_eff_guess, ok |-> e.ok,
     neff |-> IF e.ok THEN e.neff ELSE None,
     produced |-> IF e.ok THEN e.modes ELSE None,
     obj |-> obj]

\* self._ms.modes[0] = np.abs(self._ms.modes[0])
AbsFundamental(ms_modes) == [ms_modes EXCEPT ![1] = NpAbs(ms_modes[1])]

\* faulty variant of SemiVectorialNextGuess: the last mode instead of mode 0
NextGuessFromLastMode(ms_modes) == NpAbs(ms_modes[Len(ms_modes)])

\* self._initial_mode_guess = np.abs(self._ms.modes[0])
SemiVectorialNextGuess(ms_modes) == NpAbs(ms_modes[1])

\* ModeSolverSemiVectorial._solve
_solveSV(structure, wavelength, o) ==
    LET c == MsCtor(wavelength, structure, _boundary)
        e == MsSolveSV(_n_eigs, _mode_profiles, o)
        id == Len(heap) + 1
    IN  /\ _structure' = structure
        /\ IF ~c.ok
           THEN /\ ret' = Raise(c.exc)
                /\ UNCHANGED <<_ms, log, n_effs, heap, _initial_mode_guess, modes>>
           ELSE IF ~e.ok
           THEN /\ _ms' = c.obj
                /\ log' = Append(log, Invocation(structure, wavelength,
                                                 _initial_mode_guess, None, e, 0))
                /\ ret' = Raise(e.exc)
                /\ UNCHANGED <<n_effs, heap, _initial_mode_guess, modes>>
           ELSE IF _mode_profiles
           THEN /\ _ms' = [c.obj EXCEPT !.solved = TRUE, !.neff = e.neff, !.modes = id]
                /\ log' = Append(log, Invocation(structure, wavelength,
                                                 _initial_mode_guess, None, e, id))
                /\ n_effs' = e.neff
                /\ heap' = Append(heap, AbsFundamental(e.modes))
                /\ _initial_mode_guess' = SemiVectorialNextGuess(heap'[id])
                /\ modes' = id
                /\ ret' = Return([n_effs |-> e.neff, modes |-> id])
           ELSE /\ _ms' = [c.obj EXCEPT !.solved = TRUE, !.neff = e.neff, !.modes = 0]
                /\ log' = Append(log, Invocation(structure, wavelength,
                                                 _initial_mode_guess, None, e, 0))
                /\ n_effs' = e.neff
                /\ modes' = 0
                /\ ret' = Return([n_effs |-> e.neff])
                /\ UNCHANGED <<heap, _initial_mode_guess>>
        /\ UNCHANGED <<kind, _n_eigs, _boundary, _mode_profiles, _n_eff_guess,
                       mode_types, overlaps>>

\* one triplet of areas: energies, divided by their sum, times 100
Fractions(fs) ==
    LET areas == [i \in 1..Len(fs) |-> Energy(fs[i])]
        total == SumSeq(areas)
    IN  [i \in 1..Len(fs) |-> RMul(RDiv(RInt(areas[i]), RInt(total)), RInt(100))]

\* ModeSolverFullyVectorial._get_overlaps
_get_overlaps(ms_modes) ==
    [m \in 1..Len(ms_modes) |->
        LET f == ms_modes[m].fields
        IN  Fractions(<<f.Ex, f.Ey, f.Ez>>) \o Fractions(<<f.Hx, f.Hy, f.Hz>>)]

labels == [i \in 0..2 |-> CASE i = 0 -> "qTE" [] i = 1 -> "qTM" [] OTHER -> "qTE/qTM"]

\* np.argmax with the last index holding the maximum
LastArgmax(q) ==
    CHOOSE i \in 0..(Len(q) - 1) :
        /\ \A j \in 0..(Len(q) - 1) : ~RLess(q[i + 1], q[j + 1])
        /\ \A j \in (i + 1)..(Len(q) - 1) : RLess(q[j + 1], q[i + 1])

\* faulty variant of _get_mode_types: the highest index wins a tie
ModeTypesLastWins(ovs) ==
    [m \in 1..Len(ovs) |->
        LET idx == LastArgmax(SubSeq(ovs[m], 1, 3))
        IN  <<labels[idx], NpRound2(ovs[m][idx + 1])>>]

\* ModeSolverFullyVectorial._get_mode_types
_get_mode_types(ovs) ==
    [m \in 1..Len(ovs) |->
        LET idx == NpArgmax(SubSeq(ovs[m], 1, 3))
        IN  <<labels[idx], NpRound2(ovs[m][idx + 1])>>]

\* faulty variant of FullyVectorialNextGuess: the guess is not reset
KeepGuess(guess) == guess

\* self._initial_mode_guess = None
FullyVectorialNextGuess(guess) == None

\* ModeSolverFullyVectorial._solve
_solveFV(structure, wavelength, o) ==
    LET c == MsCtor(wavelength, structure, _boundary)
        e == MsSolveFV(_n_eigs, o)
        id == Len(heap) + 1
    IN  /\ _structure' = structure
        /\ IF ~c.ok
           THEN /\ ret' = Raise(c.exc)
                /\ UNCHANGED <<_ms, log, n_effs, heap, _initial_mode_guess, modes,
                               overlaps, mode_types>>
           ELSE IF ~e.ok
           THEN /\ _ms' = c.obj
                /\ log' = Append(log, Invocation(structure, wavelength,
                                                 _initial_mode_guess, _n_eff_guess, e, 0))
                /\ ret' = Raise(e.exc)
                /\ UNCHANGED <<n_effs, heap, _initial_mode_guess, modes, overlaps,
                               mode_types>>
           ELSE /\ _ms' = [c.obj EXCEPT !.solved = TRUE, !.neff = e.neff, !.modes = id]
                /\ log' = Append(log, Invocation(structure, wavelength,
                                                 _initial_mode_guess, _n_eff_guess, e, id))
                /\ n_effs' = e.neff
                /\ heap' = Append(heap, e.modes)
                /\ modes' = id
                /\ overlaps' = _get_overlaps(heap'[id])
                /\ mode_types' = _get_mode_types(overlaps')
                /\ _initial_mode_guess' = FullyVectorialNextGuess(_initial_mode_guess)
                /\ ret' = Return([n_effs |-> e.neff, modes |-> id])
        /\ UNCHANGED <<kind, _n_eigs, _boundary, _mode_profiles, _n_eff_guess>>

\* _ModeSolver.solve
solve(structure, wavelength, o) ==
    IF kind = "SV" THEN _solveSV(structure, wavelength, o)
    ELSE _solveFV(structure, wavelength, o)

---------------------------------------------------------------------------
(* Public methods.  A method runs from pc = "idle" to pc = "returned"; the  *)
(* loops of the sweeps and the three solves of solve_ng are its positions.  *)

Raised(exc) == [status |-> "raised", exc |-> exc]
Returned(value) == [status |-> "returned", value |-> value]

\* a direct call of solve(structure, wavelength)
Solve ==
    /\ pc = "idle"
    /\ \E structure \in Structures, wavelength \in Wavelengths, o \in LibOutcomes :
           solve(structure, wavelength, o)
    /\ frame' = [NoFrame EXCEPT !.op = "solve", !.entry = _initial_mode_guess]
    /\ outcome' = IF ret'.tag = "exc" THEN Raised(ret'.exc) ELSE Returned(ret'.val)
    /\ pc' = "returned"
    /\ UNCHANGED <<prev, ctor, n_effs_dat, mode_dat>>

\* faulty variant of SweepAppend: the result is put in front
SweepPrepend(acc, r) == <<r>> \o acc

\* n_effs.append(self.solve(...))
SweepAppend(acc, r) == Append(acc, r)

\* _ModeSolver._write_n_effs_to_file; x_vals is <<>> for None, else <<the list>>
_write_n_effs_to_file(results, x_vals) ==
    [k \in 1..Len(results) |->
        IF x_vals # <<>>
        THEN [x_type |-> "%0.4f", x |-> x_vals[1][k], n_eff |-> results[k].n_effs[1]]
        ELSE [x_type |-> "%i", x |-> k - 1, n_eff |-> results[k].n_effs[1]]]

\* one pass of a sweep loop: solve element i and append the result; an exception
\* of the solve leaves the method
SweepPass(structure, wavelength) ==
    /\ \E o \in LibOutcomes : solve(structure, wavelength, o)
    /\ IF ret'.tag = "exc"
       THEN /\ outcome' = Raised(ret'.exc)
            /\ pc' = "returned"
            /\ frame' = frame
       ELSE /\ frame' = [frame EXCEPT !.i = @ + 1, !.acc = SweepAppend(@, ret'.val)]
            /\ UNCHANGED <<outcome, pc>>
    /\ UNCHANGED <<prev, ctor, n_effs_dat, mode_dat>>

\* _ModeSolver.solve_sweep_structure: the call
solve_sweep_structure ==
    /\ pc = "idle"
    /\ \E structures \in SeqsUpTo(Structures, MaxSweep), wavelength \in Wavelengths,
          filename \in BOOLEAN :
           frame' = [NoFrame EXCEPT !.op = "solve_sweep_structure", !.xs = structures,
                                    !.fixed = wavelength, !.filename = filename,
                                    !.i = 1, !.entry = _initial_mode_guess]
    /\ pc' = "sweep_structure"
    /\ UNCHANGED <<solverVars, ret, outcome, log, prev, ctor, n_effs_dat, mode_dat>>

\* _ModeSolver.solve_sweep_structure: for s in structures
sweep_structure_pass ==
    /\ pc = "sweep_structure"
    /\ frame.i <= Len(frame.xs)
    /\ SweepPass(frame.xs[frame.i], frame.fixed)

\* _ModeSolver.solve_sweep_structure: after the loop
sweep_structure_return ==
    /\ pc = "sweep_structure"
    /\ frame.i > Len(frame.xs)
    /\ n_effs_dat' = IF frame.filename
                     THEN _write_n_effs_to_file(frame.acc, <<>>)
                     ELSE n_effs_dat
    /\ outcome' = Returned(frame.acc)
    /\ pc' = "returned"
    /\ UNCHANGED <<solverVars, frame, ret, log, prev, ctor, mode_dat>>

\* _ModeSolver.solve_sweep_wavelength: the call
solve_sweep_wavelength ==
    /\ pc = "idle"
    /\ \E structure \in Structures, wavelengths \in SeqsUpTo(Wavelengths, MaxSweep),
          filename \in BOOLEAN :
           frame' = [NoFrame EXCEPT !.op = "solve_sweep_wavelength", !.xs = wavelengths,
                                    !.fixed = structure, !.filename = filename,
                                    !.i = 1, !.entry = _initial_mode_guess]
    /\ pc' = "sweep_wavelength"
    /\ UNCHANGED <<solverVars, ret, outcome, log, prev, ctor, n_effs_dat, mode_dat>>

\* _ModeSolver.solve_sweep_wavelength: for w in wavelengths
sweep_wavelength_pass ==
    /\ pc = "sweep_wavelength"
    /\ frame.i <= Len(frame.xs)
    /\ SweepPass(frame.fixed, frame.xs[frame.i])

\* _ModeSolver.solve_sweep_wavelength: after the loop
sweep_wavelength_return ==
    /\ pc = "sweep_wavelength"
    /\ frame.i > Len(frame.xs)
    /\ n_effs_dat' = IF frame.filename
                     THEN _write_n_effs_to_file(frame.acc, <<frame.xs>>)
                     ELSE n_effs_dat
    /\ outcome' = Returned(frame.acc)
    /\ pc' = "returned"
    /\ UNCHANGED <<solverVars, frame, ret, log, prev, ctor, mode_dat>>

\* faulty variant of GroupIndex: forward and backward exchanged
GroupIndexSwapped(n_ctr, n_bck, n_frw, wavelength, wavelength_step) ==
    RSub(RInt(n_ctr),
         RDiv(RMul(RInt(wavelength), RInt(n_bck - n_frw)),
              RMul(RInt(2), RInt(wavelength_step))))

\* n_ctr - wavelength*(n_frw-n_bck)/(2*wavelength_step)
GroupIndex(n_ctr, n_bck, n_frw, wavelength, wavelength_step) ==
    RSub(RInt(n_ctr),
         RDiv(RMul(RInt(wavelength), RInt(n_frw - n_bck)),
              RMul(RInt(2), RInt(wavelength_step))))

\* the wavelength solve_ng gives to its solve number k (1 center, 2 backward, 3 forward)
NgWavelength(k, wavelength, wavelength_step) ==
    CASE k = 1 -> wavelength
      [] k = 2 -> wavelength - wavelength_step
      [] OTHER -> wavelength + wavelength_step

\* one of the three solves of solve_ng, followed by n_xxx = self.n_effs
NgPass(f) ==
    /\ \E o \in LibOutcomes :
           solve(f.xs[f.i], NgWavelength(f.i, f.wl, f.step), o)
    /\ IF ret'.tag = "exc"
       THEN /\ outcome' = Raised(ret'.exc)
            /\ pc' = "returned"
            /\ frame' = f
       ELSE LET got == Append(f.acc, n_effs')
            IN  IF f.i < 3
                THEN /\ frame' = [f EXCEPT !.i = @ + 1, !.acc = got]
                     /\ pc' = "solve_ng"
                     /\ outcome' = outcome
                ELSE /\ frame' = [f EXCEPT !.i = @ + 1, !.acc = got]
                     /\ pc' = "returned"
                     /\ outcome' =
                            Returned([k \in 1..Len(Zip3(got[1], got[2], got[3])) |->
                                LET z == Zip3(got[1], got[2], got[3])[k]
                                IN  GroupIndex(z[1], z[2], z[3], f.wl, f.step)])
    /\ UNCHANGED <<prev, ctor, n_effs_dat, mode_dat>>

\* _ModeSolver.solve_ng: the call and the center solve
solve_ng ==
    /\ pc = "idle"
    /\ \E ctr \in Structures, bck \in Structures, frw \in Structures,
          wavelength \in Wavelengths, wavelength_step \in Steps :
           NgPass([NoFrame EXCEPT !.op = "solve_ng", !.xs = <<ctr, bck, frw>>,
                                  !.wl = wavelength, !.step = wavelength_step,
                                  !.i = 1, !.entry = _initial_mode_guess])

\* _ModeSolver.solve_ng: the backward solve, then the forward solve and the result
solve_ng_next ==
    /\ pc = "solve_ng"
    /\ NgPass(frame)

FieldsToWrite == {{"Ex", "Ey", "Ez", "Hx", "Hy", "Hz"}, {"Ex", "Hy"}}

\* _ModeSolver._write_mode_to_file: the rows of the array, last row first
_write_mode_to_file(mode) == Reverse(mode)

\* ModeSolverSemiVectorial.write_modes_to_file
SemiVectorialWrite ==
    [i \in 1..Len(heap[_ms.modes]) |->
        [field_name |-> "Ex", mode_number |-> i - 1,
         rows |-> _write_mode_to_file(NpAbs(heap[_ms.modes][i]))]]

RECURSIVE Flatten(_)
Flatten(qq) == IF qq = <<>> THEN <<>> ELSE Head(qq) \o Flatten(Tail(qq))

\* ModeSolverFullyVectorial.write_modes_to_file
FullyVectorialWrite(fields_to_write) ==
    Flatten([i \in 1..Min2(Len(heap[_ms.modes]), Len(overlaps)) |->
        Flatten([j \in 1..Len(FieldNames) |->
            IF FieldNames[j] \in fields_to_write
            THEN << [field_name |-> FieldNames[j], mode_number |-> i - 1,
                     rows |-> _write_mode_to_file(
                                  NpAbs(heap[_ms.modes][i].fields[FieldNames[j]]))] >>
            ELSE <<>>])])

\* write_modes_to_file of either solver
write_modes_to_file ==
    /\ pc = "idle"
    /\ \E fields_to_write \in FieldsToWrite :
           IF ~_ms.set \/ _ms.modes = -1
           THEN /\ outcome' = Raised("AttributeError")
                /\ mode_dat' = mode_dat
           ELSE IF _ms.modes = 0
           THEN /\ outcome' = Raised("TypeError")
                /\ mode_dat' = mode_dat
           ELSE /\ mode_dat' = IF kind = "SV" THEN SemiVectorialWrite
                               ELSE FullyVectorialWrite(fields_to_write)
                /\ outcome' = Returned(modes)
    /\ frame' = [NoFrame EXCEPT !.op = "write_modes_to_file",
                                !.entry = _initial_mode_guess]
    /\ pc' = "returned"
    /\ UNCHANGED <<solverVars, ret, log, prev, ctor, n_effs_dat>>

\* The caller lets go of what the method gave it; lists nothing refers to any
\* more are collected.  History: the latest completed eigensolve is remembered.
Release ==
    /\ pc = "returned"
    /\ pc' = "idle"
    /\ heap' = IF modes > 0 THEN <<heap[modes]>> ELSE <<>>
    /\ modes' = IF modes > 0 THEN 1 ELSE modes
    /\ _ms' = [_ms EXCEPT !.modes = IF @ > 0 THEN 1 ELSE @]
    /\ prev' = IF \E j \in 1..Len(log) : log[j].ok
               THEN LET j == CHOOSE j \in 1..Len(log) :
                                 /\ log[j].ok
                                 /\ \A l \in (j + 1)..Len(log) : ~log[l].ok
                    IN  [completed |-> TRUE, produced |-> log[j].produced]
               ELSE prev
    /\ log' = <<>>
    /\ frame' = NoFrame
    /\ ret' = NoRet
    /\ outcome' = NoOutcome
    /\ n_effs_dat' = <<>>
    /\ mode_dat' = <<>>
    /\ UNCHANGED <<kind, _n_eigs, _boundary, _mode_profiles, _initial_mode_guess,
                   _n_eff_guess, n_effs, mode_types, overlaps, _structure, ctor>>

Next ==
    \/ Solve
    \/ solve_sweep_structure
    \/ sweep_structure_pass
    \/ sweep_structure_return
    \/ solve_sweep_wavelength
    \/ sweep_wavelength_pass
    \/ sweep_wavelength_return
    \/ solve_ng
    \/ solve_ng_next
    \/ write_modes_to_file
    \/ Release

Spec == Init /\ [][Next]_vars

---------------------------------------------------------------------------
(* Vocabulary of the properties *)

IsSweep == frame.op \in {"solve_sweep_structure", "solve_sweep_wavelength"}

\* the (structure, wavelength) a sweep owes its element i
SweepArgs(i) ==
    IF frame.op = "solve_sweep_structure" THEN <<frame.xs[i], frame.fixed>>
    ELSE <<frame.fixed, frame.xs[i]>>

\* r is the result dictionary of eigensolve invocation e
ResultOf(r, e) ==
    /\ e.ok
    /\ r.n_effs = e.neff
    /\ IF e.obj > 0 THEN "modes" \in DOMAIN r /\ r.modes = e.obj
       ELSE "modes" \notin DOMAIN r

\* the latest eigensolve that completed before invocation j of the running method
LatestCompletedBefore(j) ==
    IF \E l \in 1..(j - 1) : log[l].ok
    THEN LET l == CHOOSE l \in 1..(j - 1) :
                      log[l].ok /\ \A m \in (l + 1)..(j - 1) : ~log[m].ok
         IN  [completed |-> TRUE, produced |-> log[l].produced]
    ELSE prev

\* the guess of invocation j; for j = Len(log) + 1 the guess the next solve will get
GuessOf(j) == IF j <= Len(log) THEN log[j].guess ELSE _initial_mode_guess

InvalidCode == ~ValidBoundary(ctor.boundary)

---------------------------------------------------------------------------
(* C1 *)

\* C1: a sweep over a sequence of length k invokes the single-point solve once per
\* element, in the order of the sequence, with the fixed wavelength (structure);
\* the list it returns has k entries and entry i is the result of the solve of
\* element i.
SweepSolvesEachElementInOrder ==
    IsSweep =>
        /\ \A i \in 1..Len(log) :
               <<log[i].structure, log[i].wavelength>> = SweepArgs(i)
        /\ Len(log) <= Len(frame.xs)
        /\ \A i \in 1..Len(frame.acc) :
               i <= Len(log) /\ ResultOf(frame.acc[i], log[i])
        /\ outcome.status = "returned" =>
               /\ Len(log) = Len(frame.xs)
               /\ Len(outcome.value) = Len(frame.xs)
               /\ \A i \in 1..Len(frame.xs) : ResultOf(outcome.value[i], log[i])

SweepReturnedTwoDistinct ==
    /\ IsSweep
    /\ outcome.status = "returned"
    /\ Len(frame.xs) = 2
    /\ frame.xs[1] # frame.xs[2]
    /\ outcome.value[1].n_effs # outcome.value[2].n_effs

---------------------------------------------------------------------------
(* C2 *)

\* C2 as stated: on any semi-vectorial solver, the guess given to a solve is the
\* magnitude of mode 0 produced by the solve before it.
EverySemiVectorialSolveWarmStarts ==
    kind = "SV" =>
        \A j \in 1..(Len(log) + 1) :
            LET b == LatestCompletedBefore(j)
            IN  b.completed =>
                    /\ b.produced # None
                    /\ GuessOf(j) = NpAbs(b.produced[1])

\* C2 amended: on a semi-vectorial solver built with mode_profiles enabled, the
\* guess given to a solve is the magnitude of mode 0 produced by the latest solve
\* that completed before it (the guess given at construction when there is none).
WarmStartChainWithProfiles ==
    (kind = "SV" /\ ctor.mode_profiles) =>
        \A j \in 1..(Len(log) + 1) :
            LET b == LatestCompletedBefore(j)
            IN  IF b.completed
                THEN /\ b.produced # None
                     /\ GuessOf(j) = NpAbs(b.produced[1])
                ELSE GuessOf(j) = ctor.initial_mode_guess

WarmStartedFromSignedMode ==
    /\ kind = "SV"
    /\ ctor.mode_profiles
    /\ _n_eigs = 2
    /\ Len(log) >= 2
    /\ log[1].ok
    /\ log[1].produced[1] # NpAbs(log[1].produced[1])
    /\ log[2].guess = NpAbs(log[1].produced[1])
    /\ log[2].guess # log[1].guess

---------------------------------------------------------------------------
(* C3 *)

---------------------------------------------------------------------------
(* C4 *)

\* C4: the guess given to the backward and to the forward solve of solve_ng does
\* not depend on an earlier solve of the same call: it is none or the guess the
\* solver held when solve_ng was called.
NgSolvesIndependent ==
    frame.op = "solve_ng" =>
        \A j \in 2..Len(log) : log[j].guess \in {None, frame.entry}

---------------------------------------------------------------------------
(* C5 *)

\* C5: solve_ng solves (ctr, wavelength), (bck, wavelength - step) and
\* (frw, wavelength + step) in that order and returns, for every mode index i the
\* three solves share, n_ctr[i] - wavelength*(n_frw[i] - n_bck[i])/(2*step), each
\* n_eff taken from its own solve.
NgCentralDifference ==
    (frame.op = "solve_ng" /\ outcome.status = "returned") =>
        /\ Len(log) = 3
        /\ \A k \in 1..3 : log[k].ok /\ log[k].structure = frame.xs[k]
        /\ log[1].wavelength = frame.wl
        /\ log[2].wavelength = frame.wl - frame.step
        /\ log[3].wavelength = frame.wl + frame.step
        /\ \A i \in 1..MaxEigs + 1 :
               i \in DOMAIN outcome.value <=>
                   (i <= Len(log[1].neff) /\ i <= Len(log[2].neff) /\ i <= Len(log[3].neff))
        /\ \A i \in DOMAIN outcome.value :
               LET g == outcome.value[i]
               IN  /\ g[2] # 0
                   /\ g[1] * 2 * frame.step =
                          g[2] * (2 * frame.step * log[1].neff[i]
                                  - frame.wl * (log[3].neff[i] - log[2].neff[i]))

NgWithDispersion ==
    /\ frame.op = "solve_ng"
    /\ outcome.status = "returned"
    /\ Len(outcome.value) = 2
    /\ log[3].neff # log[2].neff
    /\ log[1].neff # log[3].neff
    /\ ~REq(outcome.value[1], RInt(log[1].neff[1]))

---------------------------------------------------------------------------
(* C6 *)

\* C6: when the solve of a sweep step fails, no later element is solved and the
\* caller receives the results of the steps completed before the failure
\* together with the failure.
FailedSweepHandsOverResults ==
    (IsSweep /\ outcome.status = "raised" /\ frame.acc # <<>>) =>
        /\ Len(log) <= frame.i
        /\ "value" \in DOMAIN outcome
        /\ outcome.value = frame.acc

---------------------------------------------------------------------------
(* C7 *)

---------------------------------------------------------------------------
(* C8 *)

\* C8: once the library has produced the modes of a solve, nothing replaces or
\* alters an entry of that list: the list every result refers to holds the modes
\* as they were produced.
ModeSetsStayAsProduced ==
    \A j \in 1..Len(log) :
        log[j].obj > 0 => heap[log[j].obj] = log[j].produced

---------------------------------------------------------------------------
(* C9 *)

EnergiesE(mode) ==
    <<Energy(mode.fields.Ex), Energy(mode.fields.Ey), Energy(mode.fields.Ez)>>

\* C9: mode_types has one entry per mode, in mode order; its label is decided by
\* the E-field energies alone (qTE when Ex is the largest, qTM when Ey is, qTE/qTM
\* when Ez is, the lowest index winning a tie) and its confidence is the winning
\* percentage rounded to 2 decimals.
ModeTypeFromEFractions ==
    (kind = "FV" /\ modes > 0) =>
        /\ Len(mode_types) = Len(heap[modes])
        /\ Len(overlaps) = Len(heap[modes])
        /\ \A m \in 1..Len(heap[modes]) :
               LET en == EnergiesE(heap[modes][m])
                   total == en[1] + en[2] + en[3]
                   label == mode_types[m][1]
                   conf == mode_types[m][2]
                   win == CASE label = "qTE" -> 1 [] label = "qTM" -> 2 [] OTHER -> 3
               IN  /\ label \in {"qTE", "qTM", "qTE/qTM"}
                   /\ label = "qTE" <=> (en[1] >= en[2] /\ en[1] >= en[3])
                   /\ label = "qTM" <=> (en[2] > en[1] /\ en[2] >= en[3])
                   /\ label = "qTE/qTM" <=> (en[3] > en[1] /\ en[3] > en[2])
                   /\ conf[2] = 100
                   /\ 2 * AbsInt(conf[1] * total - 10000 * en[win]) <= total

TieAndRoundedUp ==
    /\ kind = "FV"
    /\ modes > 0
    /\ Len(mode_types) = 2
    /\ EnergiesE(heap[modes][1])[2] = EnergiesE(heap[modes][1])[3]
    /\ mode_types[1] = <<"qTM", <<4000, 100>>>>
    /\ mode_types[2] = <<"qTM", <<7143, 100>>>>

---------------------------------------------------------------------------
(* C10 *)

OnlyNEffs(r) == DOMAIN r = {"n_effs"}

\* C10: on a semi-vectorial solver built with mode_profiles disabled, the stored
\* initial_mode_guess stays the one given at construction, every solve is given
\* it, and every result carries 'n_effs' and no 'modes'.
NoProfilesNoWarmStart ==
    (kind = "SV" /\ ~ctor.mode_profiles) =>
        /\ _initial_mode_guess = ctor.initial_mode_guess
        /\ \A j \in 1..Len(log) : log[j].guess = ctor.initial_mode_guess
        /\ ret.tag = "ok" => OnlyNEffs(ret.val)
        /\ IsSweep => \A i \in 1..Len(frame.acc) : OnlyNEffs(frame.acc[i])
        /\ (IsSweep /\ outcome.status = "returned") =>
               \A i \in 1..Len(outcome.value) : OnlyNEffs(outcome.value[i])
        /\ (frame.op = "solve" /\ outcome.status = "returned") =>
               OnlyNEffs(outcome.value)

SweepWithoutProfiles ==
    /\ kind = "SV"
    /\ ~ctor.mode_profiles
    /\ ctor.initial_mode_guess # None
    /\ IsSweep
    /\ outcome.status = "returned"
    /\ Len(outcome.value) = 2
    /\ log[2].guess = ctor.initial_mode_guess

====
